---- MODULE Spec2Model ----
(***************************************************************************)
(* The auto-refreshing read proxy of lease/read_proxy.go.                  *)
(*                                                                         *)
(* A proxy wraps at most one read lease.  Read, Seek and ReadAt are served *)
(* from the wrapped lease while it is valid; when it is absent or reports  *)
(* a RevokedError the contents are fetched again with the user's function  *)
(* into a fresh read/write lease obtained from the file leaser.  Upgrade   *)
(* hands a read/write lease to the caller and Destroy revokes the wrapped  *)
(* lease; both leave the proxy revoked for good.                           *)
(*                                                                         *)
(* Every method runs under rl.mu; the steps of a method that may block     *)
(* (NewFile, the user's function and the copy, the serving of the request) *)
(* are separate actions of the thread that holds the mutex, so that the    *)
(* leaser's asynchronous revocation of read leases and the calls of other  *)
(* threads interleave with them.                                           *)
(***************************************************************************)
EXTENDS Integers, Sequences, FiniteSets, TLC

\* ------------------------------------------------------------------------
\* Bounds of the model.
\* ------------------------------------------------------------------------

\* Number of threads calling into the one proxy.
NumThreads == 2

\* Largest size handed to NewReadProxy.
MaxSize == 2

\* Number of read/write leases the file leaser hands out before NewFile
\* fails for good.
MaxLeases == 2

Threads == 1..NumThreads

LeaseIds == 1..MaxLeases

\* The bytes of the proxied object: the user's function "must return the
\* same contents every time".  A stream of k bytes carries the first k.
Contents(k) == [i \in 1..k |-> i % 256]

Min(a, b) == IF a < b THEN a ELSE b

Max(a, b) == IF a > b THEN a ELSE b

\* ------------------------------------------------------------------------
\* Errors.  fmt.Errorf("%s: %v") builds a new plain error from the text of
\* the one it wraps, so a wrapped error is never a *RevokedError again.
\* ------------------------------------------------------------------------

nil == "nil"

RevokedError == "RevokedError"

EOF == "EOF"

EIO == "EIO"

EINVAL == "EINVAL"

Errorf(prefix, err) == prefix \o ": " \o err

isRevokedErr_NeverRevoked(err) == FALSE

isRevokedErr_AnyError(err) == err # nil

isRevokedErr(err) == err = RevokedError

\* ------------------------------------------------------------------------
\* Leases.  A lease is a file with contents and an offset, as *os.File:
\* Write and Read share the offset, ReadAt does not touch it.  st is
\*   "free"     not handed out yet
\*   "rw"       a read/write lease (cannot be revoked by the leaser)
\*   "ro"       a valid read lease
\*   "revoked"  a read lease that has been revoked
\* dg and rv record that Downgrade and Revoke have been called on it.
\* ------------------------------------------------------------------------

FreeLease == [st |-> "free", data |-> <<>>, pos |-> 0, dg |-> FALSE, rv |-> FALSE]

\* The result of a method: byte count, bytes delivered, offset, error, and
\* the read/write lease returned by Upgrade (0 is nil).
NoResult == [n |-> 0, data |-> <<>>, off |-> 0, err |-> nil, rwl |-> 0]

Failed(err) == [NoResult EXCEPT !.err = err]

NoCall == [op |-> "none", n |-> 0, off |-> 0, whence |-> 0]

Accessors == {"Read", "Seek", "ReadAt"}

\* io.Reader on a file: up to n bytes from the offset, which advances.
FileRead(f, n) ==
    LET k == Min(n, Len(f.data) - f.pos) IN
    IF n = 0 THEN [file |-> f, res |-> NoResult]
    ELSE IF k <= 0 THEN [file |-> f, res |-> Failed(EOF)]
    ELSE [file |-> [f EXCEPT !.pos = f.pos + k],
          res |-> [NoResult EXCEPT !.n = k,
                                   !.data = SubSeq(f.data, f.pos + 1, f.pos + k)]]

\* io.Seeker on a file: whence 0 is the start, 1 the offset, 2 the end.
FileSeek(f, off, whence) ==
    LET base == CASE whence = 0 -> 0
                  [] whence = 1 -> f.pos
                  [] OTHER -> Len(f.data)
        new == base + off
    IN  IF new < 0 THEN [file |-> f, res |-> Failed(EINVAL)]
        ELSE [file |-> [f EXCEPT !.pos = new],
              res |-> [NoResult EXCEPT !.off = new]]

\* io.ReaderAt on a file: n bytes at off, io.EOF when fewer are there.
FileReadAt(f, n, off) ==
    LET k == Max(0, Min(n, Len(f.data) - off)) IN
    IF off < 0 THEN [file |-> f, res |-> Failed(EINVAL)]
    ELSE [file |-> f,
          res |-> [NoResult EXCEPT !.n = k,
                                   !.data = SubSeq(f.data, off + 1, off + k),
                                   !.err = IF k < n THEN EOF ELSE nil]]

\* The request c carried out on the file f; fail is an I/O error of the
\* file itself.
FileOp_ReadAtAsRead(f, c, fail) ==
    IF fail THEN [file |-> f, res |-> Failed(EIO)]
    ELSE CASE c.op = "Seek" -> FileSeek(f, c.off, c.whence)
           [] OTHER -> FileRead(f, c.n)

FileOp(f, c, fail) ==
    IF fail THEN [file |-> f, res |-> Failed(EIO)]
    ELSE CASE c.op = "Read" -> FileRead(f, c.n)
           [] c.op = "Seek" -> FileSeek(f, c.off, c.whence)
           [] OTHER -> FileReadAt(f, c.n, c.off)

\* A method of a read lease: a revoked lease answers RevokedError.
ReadLeaseOp(f, c, fail) ==
    IF f.st # "ro" THEN [file |-> f, res |-> Failed(RevokedError)]
    ELSE FileOp(f, c, fail)

\* ReadLease.Revoke: the lease is revoked and its file released.  On a
\* lease that is no longer a read lease (already revoked or upgraded)
\* nothing is left to release.
Revoke(f) ==
    IF f.st = "ro"
    THEN [f EXCEPT !.st = "revoked", !.data = <<>>, !.pos = 0, !.rv = TRUE]
    ELSE [f EXCEPT !.rv = TRUE]

\* ReadWriteLease.Downgrade: the same file as a read lease, unless it fails.
Downgrade(f, fail) ==
    IF fail THEN [f EXCEPT !.dg = TRUE]
    ELSE [f EXCEPT !.st = "ro", !.dg = TRUE]

\* ------------------------------------------------------------------------
\* State.
\* ------------------------------------------------------------------------

VARIABLES
    size,      \* rl.size
    revoked,   \* rl.revoked
    wrapped,   \* rl.wrapped: a lease id, 0 for nil
    mu,        \* rl.mu: the thread holding it, 0 when unlocked
    leases,    \* the leaser's files, by id
    nfiles,    \* number of leases NewFile has handed out
    pc,        \* where each thread is
    call,      \* the method each thread is in, with its arguments
    rwl,       \* each thread's local rwl: a lease id, 0 for nil
    ret,       \* what each thread's method returned
    obs,       \* per call: what it did to the leaser, the source, the leases
    hist       \* what has happened to the proxy so far

vars == <<size, revoked, wrapped, mu, leases, nfiles, pc, call, rwl, ret, obs, hist>>

\* The stream of one call of the user's function: whether there was one,
\* the bytes the copy moved, whether the copy hit an I/O error, whether
\* Close failed.
NoStream == [opened |-> FALSE, copied |-> 0, ioErr |-> FALSE, closeErr |-> FALSE]

\* What a call has done so far: calls of NewFile, of the user's function, of
\* methods of the wrapped lease; streams closed; the stream; the answer of
\* the wrapped lease; the error of getContents; how the cleanup or the
\* saving of the read/write lease went; whether the read/write lease failed
\* to serve the request; whether an Upgrade had returned success, a Destroy
\* had returned, or the call before had failed on a wrong length, when the
\* call began, and the wrapped lease at that time; what a file that holds
\* the contents and was never replaced would have answered.
NoObs == [newFile |-> 0, refresh |-> 0, lease |-> 0, closed |-> 0,
          stream |-> NoStream,
          held |-> NoResult, gc |-> nil, cleanup |-> "none", ioFail |-> FALSE,
          afterUpgrade |-> FALSE, afterDestroy |-> FALSE, afterMismatch |-> FALSE,
          w0 |-> 0, want |-> NoResult, clean |-> FALSE]

\* hist.given: the size given to NewReadProxy.  hist.upgraded: an Upgrade
\* has returned success.  hist.destroyed: a Destroy has returned.
\* hist.mismatch: the last call to return was an accessor that failed on a
\* stream of the wrong length.  hist.clean: so far the user's function has
\* delivered exactly size bytes every time and neither the leaser nor a
\* lease has failed for a reason of its own; hist.ipos is then the offset of
\* a file that holds the contents and has served every Read and Seek so far.
NoHist == [given |-> 0, upgraded |-> FALSE, destroyed |-> FALSE, mismatch |-> FALSE,
           clean |-> TRUE, ipos |-> 0]

WrongLength == "Copied: wrong length"

Ideal(h) == [FreeLease EXCEPT !.st = "ro", !.data = Contents(size), !.pos = h.ipos]

\* hist after an accessor with request c has returned; bad: something
\* other than a revocation went wrong underneath.
Track(h, c, bad) ==
    IF bad \/ ~h.clean THEN [h EXCEPT !.clean = FALSE, !.ipos = 0, !.mismatch = FALSE]
    ELSE [h EXCEPT !.ipos = FileOp(Ideal(h), c, FALSE).file.pos, !.mismatch = FALSE]

Wanted(o, h, c, bad) ==
    IF bad \/ ~h.clean THEN o
    ELSE [o EXCEPT !.clean = TRUE, !.want = FileOp(Ideal(h), c, FALSE).res]

\* ------------------------------------------------------------------------
\* NewReadProxy: no lease, not revoked, the size as given.
\* ------------------------------------------------------------------------

Init ==
    /\ size \in 1..MaxSize
    /\ revoked = FALSE
    /\ wrapped = 0
    /\ mu = 0
    /\ leases = [i \in LeaseIds |-> FreeLease]
    /\ nfiles = 0
    /\ pc = [t \in Threads |-> "idle"]
    /\ call = [t \in Threads |-> NoCall]
    /\ rwl = [t \in Threads |-> 0]
    /\ ret = [t \in Threads |-> NoResult]
    /\ obs = [t \in Threads |-> NoObs]
    /\ hist = [NoHist EXCEPT !.given = size]

\* ------------------------------------------------------------------------
\* The calls a thread may make.
\* ------------------------------------------------------------------------

ReadCalls == {[NoCall EXCEPT !.op = "Read", !.n = n] : n \in 1..MaxSize}

SeekCalls == {[NoCall EXCEPT !.op = "Seek", !.off = a[1], !.whence = a[2]] :
                 a \in {<<0, 0>>, <<1, 0>>, <<-1, 0>>, <<-1, 1>>, <<0, 2>>}}

ReadAtCalls == {[NoCall EXCEPT !.op = "ReadAt", !.n = n, !.off = o] :
                   n \in 1..MaxSize, o \in 0..MaxSize}

Calls == ReadCalls \cup SeekCalls \cup ReadAtCalls
            \cup {[NoCall EXCEPT !.op = "Upgrade"], [NoCall EXCEPT !.op = "Destroy"]}

\* A caller takes the result of its call before anything else happens: the
\* taking (Done) touches nothing of the proxy, the leaser or the leases, so
\* letting it wait longer adds no behaviour of theirs.
Taken == \A u \in Threads : pc[u] # "done"

\* sync.Mutex: Lock returns only when no thread holds the mutex.
MutexFree_NoWait(m) == TRUE

MutexFree(m) == m = 0

\* rl.mu.Lock() on entry of Read, Seek, ReadAt, Upgrade and Destroy.
Lock(t) ==
    /\ Taken
    /\ pc[t] = "idle"
    /\ MutexFree(mu)
    /\ \E c \in Calls :
          /\ call' = [call EXCEPT ![t] = c]
          /\ obs' = [obs EXCEPT ![t] = [NoObs EXCEPT !.afterUpgrade = hist.upgraded,
                                                      !.afterDestroy = hist.destroyed,
                                                      !.afterMismatch = hist.mismatch,
                                                      !.w0 = wrapped]]
    /\ mu' = t
    /\ pc' = [pc EXCEPT ![t] = "locked"]
    /\ ret' = [ret EXCEPT ![t] = NoResult]
    /\ UNCHANGED <<size, revoked, wrapped, leases, nfiles, rwl, hist>>

\* return, with the deferred rl.mu.Unlock().
Return(t, r) ==
    /\ pc' = [pc EXCEPT ![t] = "done"]
    /\ ret' = [ret EXCEPT ![t] = r]
    /\ mu' = IF mu = t THEN 0 ELSE mu

\* The first part of Read, Seek and ReadAt: the revoked check and the
\* request on the wrapped lease.
Accessor(t) ==
    /\ Taken
    /\ pc[t] = "locked"
    /\ IF revoked
       THEN /\ Return(t, Failed(RevokedError))
            /\ UNCHANGED <<size, revoked, wrapped, leases, nfiles, call, rwl, obs, hist>>
       ELSE IF wrapped # 0
       THEN \E fail \in BOOLEAN :
              LET r == ReadLeaseOp(leases[wrapped], call[t], fail)
                  bad == r.res.err = EIO
                  o == [obs[t] EXCEPT !.lease = 1, !.held = r.res]
              IN  IF ~isRevokedErr(r.res.err)
                  THEN /\ Return(t, r.res)
                       /\ leases' = [leases EXCEPT ![wrapped] = r.file]
                       /\ obs' = [obs EXCEPT ![t] = Wanted(o, hist, call[t], bad)]
                       /\ hist' = Track(hist, call[t], bad)
                       /\ UNCHANGED <<size, revoked, wrapped, nfiles, call, rwl>>
                  ELSE /\ pc' = [pc EXCEPT ![t] = "getContents"]
                       /\ obs' = [obs EXCEPT ![t] = o]
                       /\ UNCHANGED <<size, revoked, wrapped, mu, leases, nfiles,
                                      call, rwl, ret, hist>>
       ELSE /\ pc' = [pc EXCEPT ![t] = "getContents"]
            /\ UNCHANGED <<size, revoked, wrapped, mu, leases, nfiles,
                           call, rwl, ret, obs, hist>>

Read(t) ==
    /\ call[t].op = "Read"
    /\ Accessor(t)

Seek(t) ==
    /\ call[t].op = "Seek"
    /\ Accessor(t)

ReadAt(t) ==
    /\ call[t].op = "ReadAt"
    /\ Accessor(t)

\* ------------------------------------------------------------------------
\* getContents.
\* ------------------------------------------------------------------------

\* How a stream of the user's function ends: srcFail, rl.f() itself failed;
\* else the copy moved `copied` bytes and hit an I/O error (ioErr) or the end
\* of the stream, and Close failed (closeErr) or not.  The error getContents
\* returns: the first one, and the one of Close only when there is no other.
getContentsErr_CloseErrorDropped(srcFail, copied, ioErr, closeErr) ==
    IF srcFail THEN Errorf("User function", "ESRC")
    ELSE IF ioErr THEN Errorf("Copy", EIO)
    ELSE IF copied # size THEN WrongLength
    ELSE nil

getContentsErr_NoLengthCheck(srcFail, copied, ioErr, closeErr) ==
    IF srcFail THEN Errorf("User function", "ESRC")
    ELSE IF ioErr THEN Errorf("Copy", EIO)
    ELSE IF closeErr THEN Errorf("Close", "ECLOSE")
    ELSE nil

getContentsErr(srcFail, copied, ioErr, closeErr) ==
    IF srcFail THEN Errorf("User function", "ESRC")
    ELSE IF ioErr THEN Errorf("Copy", EIO)
    ELSE IF copied # size THEN WrongLength
    ELSE IF closeErr THEN Errorf("Close", "ECLOSE")
    ELSE nil

\* The deferred rc.Close(): registered once rl.f() has returned a stream,
\* it runs once however getContents ends.  The number of Close calls.
CloseCalls_OnlyOnSuccess(srcFail, copied, ioErr) ==
    IF srcFail \/ ioErr \/ copied # size THEN 0 ELSE 1

CloseCalls(srcFail, copied, ioErr) == IF srcFail THEN 0 ELSE 1

\* destroyReadWriteLease: downgrade, and revoke the read lease if that
\* worked.
destroyReadWriteLease_NoRevoke(f, dgFail) == Downgrade(f, dgFail)

destroyReadWriteLease(f, dgFail) ==
    IF dgFail THEN Downgrade(f, TRUE) ELSE Revoke(Downgrade(f, FALSE))

\* The deferred cleanup of getContents: the lease as it is left when
\* getContents returns err.
getContentsCleanup(f, err, dgFail) ==
    IF err # nil THEN destroyReadWriteLease(f, dgFail) ELSE f

\* The deferred function of Upgrade: rl.revoked when Upgrade returns err.
UpgradeDefer_Never(err, rev) == rev

UpgradeDefer_Always(err, rev) == TRUE

UpgradeDefer(err, rev) == IF err = nil THEN TRUE ELSE rev

\* rl.leaser.NewFile(), the first statement of getContents.  The leaser may
\* fail, and does once it has handed out MaxLeases leases.
NewFile(t) ==
    /\ Taken
    /\ pc[t] = "getContents"
    /\ \E fail \in BOOLEAN :
          IF fail \/ nfiles >= MaxLeases
          THEN LET err == Errorf("NewFile", "ENOSPC") IN
               /\ Return(t, Failed(Errorf("getContents", err)))
               /\ obs' = [obs EXCEPT ![t].newFile = @ + 1, ![t].gc = err]
               /\ hist' = IF call[t].op \in Accessors
                          THEN Track(hist, call[t], TRUE)
                          ELSE [hist EXCEPT !.mismatch = FALSE]
               /\ revoked' = IF call[t].op = "Upgrade"
                             THEN UpgradeDefer(err, revoked) ELSE revoked
               /\ UNCHANGED <<size, wrapped, leases, nfiles, call, rwl>>
          ELSE /\ nfiles' = nfiles + 1
               /\ rwl' = [rwl EXCEPT ![t] = nfiles + 1]
               /\ leases' = [leases EXCEPT ![nfiles + 1] = [FreeLease EXCEPT !.st = "rw"]]
               /\ obs' = [obs EXCEPT ![t].newFile = @ + 1]
               /\ pc' = [pc EXCEPT ![t] = "refresh"]
               /\ UNCHANGED <<size, revoked, wrapped, mu, call, ret, hist>>

\* The rest of getContents: the user's function, the copy into the
\* read/write lease, the Close of the stream, the check of the length and
\* the deferred cleanup; then the `if err != nil` of the caller.
getContents(t) ==
    /\ Taken
    /\ pc[t] = "refresh"
    /\ \E srcFail, ioErr, closeErr, dgFail \in BOOLEAN :
       \E copied \in (size - 1)..(size + 1) :
          LET id == rwl[t]
              err == getContentsErr(srcFail, copied, ioErr, closeErr)
              filled == IF srcFail THEN leases[id]
                        ELSE [leases[id] EXCEPT !.data = Contents(copied),
                                                !.pos = copied]
              o == [obs[t] EXCEPT !.refresh = @ + 1,
                                  !.closed = @ + CloseCalls(srcFail, copied, ioErr),
                                  !.stream = IF srcFail THEN NoStream
                                             ELSE [opened |-> TRUE, copied |-> copied,
                                                   ioErr |-> ioErr, closeErr |-> closeErr],
                                  !.gc = err]
          IN  /\ leases' = [leases EXCEPT ![id] = getContentsCleanup(filled, err, dgFail)]
              /\ IF err # nil
                 THEN /\ Return(t, [Failed(Errorf("getContents", err)) EXCEPT
                                       !.rwl = IF call[t].op = "Upgrade" THEN id ELSE 0])
                      /\ obs' = [obs EXCEPT ![t] =
                                   [o EXCEPT !.cleanup = IF dgFail THEN "downgradeFailed"
                                                         ELSE "downgraded"]]
                      /\ hist' = IF call[t].op \in Accessors
                                 THEN [Track(hist, call[t], TRUE) EXCEPT
                                          !.mismatch = (err = WrongLength)]
                                 ELSE [hist EXCEPT !.mismatch = FALSE]
                      /\ revoked' = IF call[t].op = "Upgrade"
                                    THEN UpgradeDefer(err, revoked) ELSE revoked
                      /\ UNCHANGED <<size, wrapped, nfiles, call, rwl>>
                 ELSE /\ pc' = [pc EXCEPT ![t] = "serve"]
                      /\ obs' = [obs EXCEPT ![t] = o]
                      /\ UNCHANGED <<size, revoked, wrapped, mu, nfiles, call, rwl,
                                     ret, hist>>

\* ------------------------------------------------------------------------
\* The end of Read, Seek and ReadAt after a successful getContents.
\* ------------------------------------------------------------------------

\* saveContents: rl.wrapped after the downgrade of the lease id.
saveContents_KeepOld(w, id, dgFail) == w

saveContents_StoreAnyway(w, id, dgFail) == id

saveContents(w, id, dgFail) == IF dgFail THEN w ELSE id

\* Serve the request from the read/write lease; the deferred saveContents
\* downgrades the lease and stores it.
Serve(t) ==
    /\ Taken
    /\ pc[t] = "serve"
    /\ call[t].op \in Accessors
    /\ \E fail, dgFail \in BOOLEAN :
          LET id == rwl[t]
              r == FileOp(leases[id], call[t], fail)
              bad == fail \/ dgFail
          IN  /\ leases' = [leases EXCEPT ![id] = Downgrade(r.file, dgFail)]
              /\ wrapped' = saveContents(wrapped, id, dgFail)
              /\ Return(t, r.res)
              /\ obs' = [obs EXCEPT ![t] =
                           Wanted([obs[t] EXCEPT !.ioFail = fail, !.cleanup =
                                     IF dgFail THEN "downgradeFailed" ELSE "downgraded"],
                                  hist, call[t], bad)]
              /\ hist' = Track(hist, call[t], bad)
              /\ UNCHANGED <<size, revoked, nfiles, call, rwl>>

\* ------------------------------------------------------------------------
\* Upgrade and Destroy.
\* ------------------------------------------------------------------------

\* ReadLease.Upgrade: a revoked lease answers RevokedError; otherwise the
\* file comes back as a read/write lease, unless the lease fails.
ReadLeaseUpgrade(f, fail) ==
    IF f.st # "ro" THEN [file |-> f, err |-> RevokedError]
    ELSE IF fail THEN [file |-> f, err |-> EIO]
    ELSE [file |-> [f EXCEPT !.st = "rw"], err |-> nil]

\* The first part of Upgrade: the revoked check and the upgrade of the
\* wrapped lease.
Upgrade(t) ==
    /\ Taken
    /\ pc[t] = "locked"
    /\ call[t].op = "Upgrade"
    /\ IF revoked
       THEN /\ Return(t, Failed(RevokedError))
            /\ UNCHANGED <<size, revoked, wrapped, leases, nfiles, call, rwl, obs, hist>>
       ELSE IF wrapped # 0
       THEN \E fail \in BOOLEAN :
              LET r == ReadLeaseUpgrade(leases[wrapped], fail)
                  o == [obs[t] EXCEPT !.lease = 1, !.held = Failed(r.err)]
              IN  IF ~isRevokedErr(r.err)
                  THEN /\ Return(t, [Failed(r.err) EXCEPT
                                        !.rwl = IF r.err = nil THEN wrapped ELSE 0])
                       /\ revoked' = UpgradeDefer(r.err, revoked)
                       /\ leases' = [leases EXCEPT ![wrapped] = r.file]
                       /\ obs' = [obs EXCEPT ![t] = o]
                       /\ hist' = [hist EXCEPT !.upgraded = @ \/ r.err = nil,
                                                !.mismatch = FALSE]
                       /\ UNCHANGED <<size, wrapped, nfiles, call, rwl>>
                  ELSE /\ pc' = [pc EXCEPT ![t] = "getContents"]
                       /\ obs' = [obs EXCEPT ![t] = o]
                       /\ UNCHANGED <<size, revoked, wrapped, mu, leases, nfiles,
                                      call, rwl, ret, hist>>
       ELSE /\ pc' = [pc EXCEPT ![t] = "getContents"]
            /\ UNCHANGED <<size, revoked, wrapped, mu, leases, nfiles,
                           call, rwl, ret, obs, hist>>

\* The end of Upgrade after a successful getContents: the read/write lease
\* goes to the caller as it is.
UpgradeFresh(t) ==
    /\ Taken
    /\ pc[t] = "serve"
    /\ call[t].op = "Upgrade"
    /\ Return(t, [NoResult EXCEPT !.rwl = rwl[t]])
    /\ revoked' = UpgradeDefer(nil, revoked)
    /\ hist' = [hist EXCEPT !.upgraded = TRUE, !.mismatch = FALSE]
    /\ UNCHANGED <<size, wrapped, leases, nfiles, call, rwl, obs>>

\* Destroy: rl.revoked and the lease Destroy leaves behind.
DestroyRevoked_Toggle(rev) == ~rev

DestroyRevoked_Unchanged(rev) == rev

DestroyRevoked(rev) == TRUE

DestroyLeases_NoRevoke(ls, w) == ls

DestroyLeases(ls, w) == IF w # 0 THEN [ls EXCEPT ![w] = Revoke(ls[w])] ELSE ls

Destroy(t) ==
    /\ Taken
    /\ pc[t] = "locked"
    /\ call[t].op = "Destroy"
    /\ revoked' = DestroyRevoked(revoked)
    /\ leases' = DestroyLeases(leases, wrapped)
    /\ Return(t, NoResult)
    /\ obs' = [obs EXCEPT ![t].lease = IF wrapped # 0 THEN 1 ELSE 0]
    /\ hist' = [hist EXCEPT !.destroyed = TRUE, !.mismatch = FALSE]
    /\ UNCHANGED <<size, wrapped, nfiles, call, rwl>>

\* ------------------------------------------------------------------------
\* Size, which takes no lock.
\* ------------------------------------------------------------------------

SizeResult_Zero(s) == 0

SizeResult(s) == s

\* Size has no rl.mu.Lock(): it runs whoever holds the mutex m.
SizeMayRun_TakesLock(m) == m = 0

SizeMayRun(m) == TRUE

Size(t) ==
    /\ Taken
    /\ pc[t] = "idle"
    /\ SizeMayRun(mu)
    /\ call' = [call EXCEPT ![t] = [NoCall EXCEPT !.op = "Size"]]
    /\ obs' = [obs EXCEPT ![t] = [NoObs EXCEPT !.afterUpgrade = hist.upgraded,
                                              !.afterDestroy = hist.destroyed,
                                              !.w0 = wrapped]]
    /\ pc' = [pc EXCEPT ![t] = "done"]
    /\ ret' = [ret EXCEPT ![t] = [NoResult EXCEPT !.n = SizeResult(size)]]
    /\ UNCHANGED <<size, revoked, wrapped, mu, leases, nfiles, rwl, hist>>

\* ------------------------------------------------------------------------
\* The surroundings.
\* ------------------------------------------------------------------------

\* The caller has taken the result and is ready for its next call.
Done(t) ==
    /\ pc[t] = "done"
    /\ pc' = [pc EXCEPT ![t] = "idle"]
    /\ call' = [call EXCEPT ![t] = NoCall]
    /\ rwl' = [rwl EXCEPT ![t] = 0]
    /\ ret' = [ret EXCEPT ![t] = NoResult]
    /\ obs' = [obs EXCEPT ![t] = NoObs]
    /\ UNCHANGED <<size, revoked, wrapped, mu, leases, nfiles, hist>>

\* The file leaser revokes a read lease to make room, at any time.
Evict(i) ==
    /\ Taken
    /\ leases[i].st = "ro"
    /\ leases' = [leases EXCEPT ![i] = [@ EXCEPT !.st = "revoked", !.data = <<>>, !.pos = 0]]
    /\ UNCHANGED <<size, revoked, wrapped, mu, nfiles, pc, call, rwl, ret, obs, hist>>

Next ==
    \/ \E t \in Threads :
          \/ Lock(t)
          \/ Read(t)
          \/ Seek(t)
          \/ ReadAt(t)
          \/ NewFile(t)
          \/ getContents(t)
          \/ Serve(t)
          \/ Upgrade(t)
          \/ UpgradeFresh(t)
          \/ Destroy(t)
          \/ Size(t)
          \/ Done(t)
    \/ \E i \in LeaseIds : Evict(i)

Spec == Init /\ [][Next]_vars

\* ------------------------------------------------------------------------
\* Properties.
\* ------------------------------------------------------------------------

Returned(t) == pc[t] = "done"

Guarded == Accessors \cup {"Upgrade"}

\* A call that ended on the revoked check: RevokedError, and nothing asked of
\* the leaser, the user's function or a lease.
Refused(t) ==
    /\ ret[t] = Failed(RevokedError)
    /\ obs[t].newFile = 0
    /\ obs[t].refresh = 0
    /\ obs[t].lease = 0
    /\ rwl[t] = 0

\* C1: once an Upgrade has returned success, a call of Read, Seek, ReadAt
\* or Upgrade that begins afterwards never gets past the revoked check: it
\* returns RevokedError without a call to the leaser, the user's function
\* or any lease.
C1_AfterUpgradeRefused ==
    \A t \in Threads :
        (obs[t].afterUpgrade /\ call[t].op \in Guarded) =>
            /\ pc[t] \in {"locked", "done"}
            /\ Returned(t) => Refused(t)

C1_Witness ==
    \E t \in Threads :
        /\ Returned(t) /\ obs[t].afterUpgrade /\ call[t].op = "Upgrade"
        /\ ret[t].err = RevokedError
        /\ nfiles >= 1

\* C2: once Destroy has returned, a call of Read, Seek, ReadAt or Upgrade
\* that begins afterwards returns RevokedError without touching anything,
\* and the lease that was wrapped when Destroy ran has had Revoke called on
\* it and is not a valid read lease any more.
C2_AfterDestroyRefused ==
    /\ \A t \in Threads :
          (obs[t].afterDestroy /\ call[t].op \in Guarded) =>
              /\ pc[t] \in {"locked", "done"}
              /\ Returned(t) => Refused(t)
    /\ \A t \in Threads :
          (Returned(t) /\ call[t].op = "Destroy" /\ obs[t].w0 # 0) =>
              /\ leases[obs[t].w0].rv
              /\ leases[obs[t].w0].st # "ro"
    /\ (hist.destroyed /\ wrapped # 0) =>
          (leases[wrapped].rv /\ leases[wrapped].st # "ro")

C2_Witness ==
    \E t \in Threads :
        /\ Returned(t) /\ call[t].op = "Destroy"
        /\ ~obs[t].afterDestroy /\ ~obs[t].afterUpgrade
        /\ obs[t].w0 # 0
        /\ leases[obs[t].w0].st = "revoked" /\ leases[obs[t].w0].rv

\* C3: an accessor whose wrapped lease answered RevokedError calls NewFile
\* exactly once and the user's function at most once before it returns, and
\* does not return RevokedError.
C3_OneRefresh ==
    \A t \in Threads :
        (Returned(t) /\ call[t].op \in Accessors
            /\ obs[t].lease = 1 /\ obs[t].held.err = RevokedError) =>
            /\ obs[t].newFile = 1
            /\ obs[t].refresh <= 1
            /\ ret[t].err # RevokedError

C3_Witness ==
    \E t \in Threads :
        /\ Returned(t) /\ call[t].op = "ReadAt"
        /\ obs[t].lease = 1 /\ obs[t].held.err = RevokedError
        /\ obs[t].newFile = 1 /\ obs[t].refresh = 1
        /\ ret[t].err = nil /\ ret[t].n = 1

\* C4: an accessor whose wrapped lease answered with success or with an
\* error other than RevokedError returns that answer as it is, calls neither
\* NewFile nor the user's function, and leaves rl.wrapped as it was.
C4_FastPath ==
    \A t \in Threads :
        (Returned(t) /\ call[t].op \in Accessors
            /\ obs[t].lease = 1 /\ obs[t].held.err # RevokedError) =>
            /\ ret[t] = obs[t].held
            /\ obs[t].newFile = 0
            /\ obs[t].refresh = 0
            /\ rwl[t] = 0
            /\ wrapped = obs[t].w0

C4_Witness ==
    \E t \in Threads :
        /\ Returned(t) /\ call[t].op = "Read"
        /\ obs[t].lease = 1
        /\ ret[t].err = nil /\ ret[t].n = 1 /\ ret[t].data = <<1>>

\* C5 (as claimed): while the user's function delivers the same size bytes
\* every time and nothing but revocations goes wrong, every Read returns
\* the bytes that a lease holding the contents, never revoked, would have
\* returned after the same sequence of Reads and Seeks, whether it was
\* served from the wrapped lease, a first derivation or a re-derivation.
C5_ReadSeekAsOneFile ==
    \A t \in Threads :
        (Returned(t) /\ call[t].op = "Read" /\ obs[t].clean) =>
            ret[t] = obs[t].want

\* C6: Size returns the size given to NewReadProxy, and rl.size is that
\* value in every state.
C6_SizeConstant ==
    /\ size = hist.given
    /\ \A t \in Threads :
          (Returned(t) /\ call[t].op = "Size") =>
              (ret[t].n = hist.given /\ ret[t].err = nil)

C6_Witness ==
    \E t \in Threads :
        /\ Returned(t) /\ call[t].op = "Size"
        /\ ret[t].n = size
        /\ hist.destroyed /\ wrapped # 0 /\ ~hist.clean

\* The user's function delivered a stream that ended without an I/O error
\* after a number of bytes that is not size.
WrongLengthStream(t) ==
    /\ obs[t].stream.opened
    /\ ~obs[t].stream.ioErr
    /\ obs[t].stream.copied # size

\* The user's function delivered exactly size bytes, no error anywhere.
GoodStream(t) ==
    /\ obs[t].stream.opened
    /\ ~obs[t].stream.ioErr
    /\ ~obs[t].stream.closeErr
    /\ obs[t].stream.copied = size

\* C7 (as claimed): a stream of the wrong length makes getContents fail
\* with the wrong-length error; the accessor returns an error, rl.wrapped
\* does not become the lease of that attempt, the proxy is not revoked; and
\* the accessor call right after it, when NewFile and the read/write lease
\* work and the user's function delivers size bytes, returns without error.
C7_WrongLengthThenSuccess ==
    /\ \A t \in Threads :
          (Returned(t) /\ call[t].op \in Accessors /\ WrongLengthStream(t)) =>
              /\ obs[t].gc = WrongLength
              /\ ret[t].err # nil
              /\ wrapped # rwl[t]
              /\ ~revoked
    /\ \A t \in Threads :
          (Returned(t) /\ call[t].op \in {"Read", "Seek", "ReadAt"}
              /\ obs[t].afterMismatch /\ GoodStream(t) /\ ~obs[t].ioFail
              /\ call[t].off >= 0 /\ call[t].off + call[t].n <= size) =>
              ret[t].err = nil

\* The revoked flag is set exactly when a Destroy has returned or an
\* Upgrade has returned success.
RevokedIffRetired == revoked = (hist.upgraded \/ hist.destroyed)

\* C8: rl.revoked is false until a Destroy returns or an Upgrade returns
\* success, and true ever after; no Read, Seek or ReadAt and no failed
\* Upgrade sets it, so a call after a failed one is refused with RevokedError
\* only if a Destroy or a successful Upgrade came before it.
C8_RevokedOnlyByDestroyOrUpgrade ==
    /\ RevokedIffRetired
    /\ \A t \in Threads :
          (Returned(t) /\ call[t].op = "Upgrade" /\ ~obs[t].afterUpgrade
              /\ ~obs[t].afterDestroy) =>
              (revoked = (ret[t].err = nil))
    /\ \A t \in Threads :
          (Returned(t) /\ call[t].op \in Guarded /\ Refused(t)) =>
              (obs[t].afterUpgrade \/ obs[t].afterDestroy)

C8_Witness ==
    \E t \in Threads :
        /\ Returned(t) /\ call[t].op = "Upgrade"
        /\ obs[t].newFile = 1 /\ obs[t].refresh = 1
        /\ ret[t].err # nil
        /\ ~revoked

\* A Destroy of thread t on a proxy that a Destroy or a successful Upgrade
\* has retired before.
DestroyAgain(t) ==
    /\ pc[t] = "locked" /\ call[t].op = "Destroy"
    /\ pc'[t] = "done"
    /\ hist.upgraded \/ hist.destroyed

\* C9: a Destroy after a Destroy or after a successful Upgrade returns
\* normally and changes neither rl.revoked (true) nor rl.wrapped nor the
\* state of any lease; and a Read that begins after a Destroy returns
\* RevokedError.
C9_DestroyIdempotent ==
    /\ [][\A t \in Threads :
            DestroyAgain(t) =>
                /\ revoked /\ revoked'
                /\ wrapped' = wrapped
                /\ \A i \in LeaseIds :
                      /\ leases'[i].st = leases[i].st
                      /\ leases'[i].data = leases[i].data
                      /\ leases'[i].pos = leases[i].pos
                /\ ret'[t] = NoResult]_vars
    /\ [](\A t \in Threads :
            (Returned(t) /\ call[t].op = "Read" /\ obs[t].afterDestroy) =>
                ret[t].err = RevokedError)

C9_Witness ==
    \E t \in Threads :
        /\ Returned(t) /\ call[t].op = "Destroy"
        /\ obs[t].afterUpgrade /\ ~obs[t].afterDestroy
        /\ obs[t].w0 # 0 /\ leases[obs[t].w0].st = "rw"
        /\ revoked

\* getContents of thread t returned an error after NewFile had succeeded.
FailedAfterNewFile(t) ==
    /\ Returned(t)
    /\ obs[t].newFile = 1
    /\ rwl[t] # 0
    /\ obs[t].gc # nil

\* C10 (as claimed): when getContents returns an error after NewFile
\* succeeded, the read/write lease of that attempt has been downgraded and
\* its read lease revoked.
C10_AlwaysDestroyed ==
    \A t \in Threads :
        FailedAfterNewFile(t) =>
            /\ leases[rwl[t]].dg
            /\ leases[rwl[t]].rv
            /\ leases[rwl[t]].st = "revoked"

\* C10 (amended): when getContents returns an error after NewFile
\* succeeded, Downgrade has been called on the read/write lease of that
\* attempt; if Downgrade succeeded its read lease has been revoked, and if
\* Downgrade failed the lease is left as it is, never revoked.  Either way
\* the caller of getContents does nothing more to it: it does not become
\* rl.wrapped.
C10_DestroyAttempted ==
    \A t \in Threads :
        FailedAfterNewFile(t) =>
            /\ leases[rwl[t]].dg
            /\ wrapped # rwl[t]
            /\ IF obs[t].cleanup = "downgradeFailed"
               THEN leases[rwl[t]].st = "rw" /\ ~leases[rwl[t]].rv
               ELSE leases[rwl[t]].st = "revoked" /\ leases[rwl[t]].rv

C10_Witness ==
    \E t \in Threads :
        /\ FailedAfterNewFile(t)
        /\ call[t].op = "Upgrade"
        /\ obs[t].stream.closeErr /\ obs[t].gc = Errorf("Close", "ECLOSE")
        /\ leases[rwl[t]].st = "revoked" /\ leases[rwl[t]].rv

\* An accessor of thread t has returned after its wrapped lease answered
\* RevokedError.
ReturnedAfterRevocation(t) ==
    /\ Returned(t)
    /\ call[t].op \in Accessors
    /\ obs[t].lease = 1
    /\ obs[t].held.err = RevokedError

\* getContents of thread t succeeded and the downgrade of saveContents too.
Saved(t) ==
    /\ obs[t].newFile = 1
    /\ obs[t].gc = nil
    /\ obs[t].cleanup = "downgraded"

\* C11 (as claimed): when an accessor returns after the wrapped lease
\* answered RevokedError, rl.wrapped is the freshly downgraded lease if
\* getContents and the downgrade succeeded, and nil otherwise.
C11_SlotEmptiedOnFailure ==
    \A t \in Threads :
        ReturnedAfterRevocation(t) =>
            IF Saved(t) THEN wrapped = rwl[t] /\ wrapped # obs[t].w0
            ELSE wrapped = 0

\* C11 (amended): when an accessor returns after the wrapped lease answered
\* RevokedError, rl.wrapped is the freshly downgraded lease if getContents
\* and the downgrade succeeded; otherwise it is still the revoked lease,
\* which is never taken out of rl.wrapped.
C11_SlotKeepsRevokedLease ==
    \A t \in Threads :
        ReturnedAfterRevocation(t) =>
            IF Saved(t) THEN wrapped = rwl[t] /\ wrapped # obs[t].w0
            ELSE /\ wrapped = obs[t].w0
                 /\ wrapped # 0
                 /\ wrapped # rwl[t]
                 /\ leases[wrapped].st = "revoked"

C11_Witness ==
    \E t \in Threads :
        /\ ReturnedAfterRevocation(t)
        /\ obs[t].newFile = 1 /\ obs[t].gc = nil
        /\ obs[t].cleanup = "downgradeFailed"
        /\ wrapped = obs[t].w0 /\ leases[wrapped].st = "revoked"

\* The proxy has been retired: a Destroy has returned or an Upgrade has
\* returned success.
Retired == hist.upgraded \/ hist.destroyed

\* C12 (as claimed): once the proxy is retired rl.wrapped is nil, and no
\* call that begins afterwards calls a method of a lease.
C12_SlotEmptyWhenDead ==
    /\ Retired => wrapped = 0
    /\ \A t \in Threads :
          (Returned(t) /\ (obs[t].afterUpgrade \/ obs[t].afterDestroy)) =>
              obs[t].lease = 0

\* C12 (amended): once the proxy is retired rl.wrapped never changes again
\* (it keeps the lease it had, it is not set to nil), and Read, Seek, ReadAt
\* and Upgrade that begin afterwards call no method of a lease; only a
\* Destroy that begins afterwards still calls Revoke on the lease left in
\* rl.wrapped.
C12_SlotFrozenWhenDead ==
    /\ [][Retired => wrapped' = wrapped]_vars
    /\ [](\A t \in Threads :
            (Returned(t) /\ (obs[t].afterUpgrade \/ obs[t].afterDestroy)) =>
                /\ wrapped = obs[t].w0
                /\ call[t].op \in Guarded => obs[t].lease = 0
                /\ (call[t].op = "Destroy" /\ wrapped # 0) =>
                      (obs[t].lease = 1 /\ leases[wrapped].rv))

C12_Witness ==
    \E t \in Threads :
        /\ Returned(t) /\ call[t].op = "Destroy"
        /\ obs[t].afterUpgrade
        /\ wrapped # 0 /\ wrapped = obs[t].w0
        /\ obs[t].lease = 1
        /\ leases[wrapped].st = "rw"

\* Thread t is inside a method that takes the mutex: between rl.mu.Lock()
\* and the return.
Inside(t) == pc[t] \in {"locked", "getContents", "refresh", "serve"}

\* Thread t is inside getContents.
Deriving(t) == pc[t] \in {"getContents", "refresh"}

\* C13: a thread that is inside Read, Seek, ReadAt, Upgrade or Destroy holds
\* rl.mu from the revoked check to the return, so at most one thread is
\* inside, two derivations never overlap, and rl.revoked and rl.wrapped
\* change only in a step of the thread that holds rl.mu.
C13_Serialized ==
    /\ [](\A t \in Threads : Inside(t) => mu = t)
    /\ [](Cardinality({t \in Threads : Inside(t)}) <= 1)
    /\ [](mu # 0 => Inside(mu))
    /\ [][(revoked' # revoked \/ wrapped' # wrapped) =>
             (mu # 0 /\ Inside(mu) /\ pc'[mu] = "done")]_vars

C13_Witness ==
    \E t, u \in Threads :
        /\ t # u
        /\ pc[t] = "serve" /\ mu = t
        /\ obs[t].lease = 1 /\ obs[t].held.err = RevokedError
        /\ pc[u] = "idle"
        /\ \E i \in LeaseIds : leases[i].st = "revoked" /\ ~leases[i].rv

\* The file a successful getContents leaves in the read/write lease: the
\* size bytes of the contents, the offset behind them.
Fresh == [data |-> Contents(size), pos |-> size]

\* C14: in the recovery path the request is served from the fresh
\* read/write lease, and whether that succeeded or failed the lease is then
\* downgraded and stored in rl.wrapped; when the downgrade fails the caller
\* gets the same result, the lease is not stored and rl.wrapped holds no
\* valid lease, so the next access derives again.
C14_ServeThenSave ==
    \A t \in Threads :
        (Returned(t) /\ call[t].op \in Accessors
            /\ obs[t].newFile = 1 /\ obs[t].refresh = 1 /\ obs[t].gc = nil) =>
            /\ ret[t] = FileOp(Fresh, call[t], obs[t].ioFail).res
            /\ leases[rwl[t]].dg
            /\ IF obs[t].cleanup = "downgraded"
               THEN wrapped = rwl[t] /\ leases[rwl[t]].st # "rw"
               ELSE /\ obs[t].cleanup = "downgradeFailed"
                    /\ wrapped = obs[t].w0
                    /\ wrapped # rwl[t]
                    /\ leases[rwl[t]].st = "rw"
                    /\ wrapped # 0 => leases[wrapped].st = "revoked"

C14_Witness ==
    \E t \in Threads :
        /\ Returned(t) /\ call[t].op = "ReadAt"
        /\ obs[t].newFile = 1 /\ obs[t].gc = nil
        /\ obs[t].cleanup = "downgradeFailed"
        /\ ret[t].err = nil /\ ret[t].n = 1
        /\ wrapped = 0

\* An Upgrade of thread t on a proxy that was not retired has returned.
UpgradeReturned(t) ==
    /\ Returned(t)
    /\ call[t].op = "Upgrade"
    /\ ~obs[t].afterUpgrade
    /\ ~obs[t].afterDestroy

\* C15: Upgrade on a live proxy.  If the wrapped lease upgrades, its
\* read/write lease is returned and nothing is derived; if it fails with an
\* error other than RevokedError, that error is returned, nothing is derived
\* and the proxy stays live; if it answers RevokedError, or there is no
\* wrapped lease, getContents is called once, and on success its read/write
\* lease is returned as it is: size bytes, never downgraded, not stored in
\* rl.wrapped.
C15_UpgradePaths ==
    \A t \in Threads :
        UpgradeReturned(t) =>
            /\ obs[t].w0 = 0 => obs[t].lease = 0
            /\ obs[t].w0 # 0 => obs[t].lease = 1
            /\ wrapped = obs[t].w0
            /\ (obs[t].lease = 1 /\ obs[t].held.err = nil) =>
                  /\ ret[t] = [NoResult EXCEPT !.rwl = obs[t].w0]
                  /\ obs[t].newFile = 0 /\ obs[t].refresh = 0
                  /\ leases[obs[t].w0].st = "rw"
                  /\ revoked
            /\ (obs[t].lease = 1 /\ obs[t].held.err \notin {nil, RevokedError}) =>
                  /\ ret[t] = Failed(obs[t].held.err)
                  /\ obs[t].newFile = 0 /\ obs[t].refresh = 0
                  /\ ~revoked
            /\ (obs[t].lease = 0 \/ obs[t].held.err = RevokedError) =>
                  /\ obs[t].newFile = 1 /\ obs[t].refresh <= 1
                  /\ ret[t].err = nil =>
                        /\ ret[t].rwl = rwl[t] /\ rwl[t] # 0
                        /\ leases[rwl[t]].st = "rw"
                        /\ ~leases[rwl[t]].dg
                        /\ leases[rwl[t]].data = Contents(size)
                        /\ wrapped # rwl[t]
                        /\ revoked

C15_Witness ==
    \E t \in Threads :
        /\ UpgradeReturned(t)
        /\ obs[t].lease = 1 /\ obs[t].held.err = RevokedError
        /\ ret[t].err = nil /\ ret[t].rwl = rwl[t]
        /\ Len(leases[rwl[t]].data) = size

\* getContents of thread t has returned to its caller.
getContentsReturned(t) ==
    \/ pc[t] = "serve"
    \/ Returned(t) /\ obs[t].newFile = 1

\* C16: a stream that the user's function returned is closed exactly once
\* before getContents returns, whether the copy succeeded, hit an I/O error
\* or moved the wrong number of bytes; nothing is closed when the user's
\* function failed or NewFile failed, nor before the function was called.
C16_StreamClosedOnce ==
    \A t \in Threads :
        /\ getContentsReturned(t) =>
              obs[t].closed = IF obs[t].stream.opened THEN 1 ELSE 0
        /\ obs[t].refresh = 0 => (obs[t].closed = 0 /\ ~obs[t].stream.opened)
        /\ obs[t].closed <= obs[t].refresh

C16_Witness ==
    \E t \in Threads :
        /\ Returned(t) /\ obs[t].newFile = 1
        /\ obs[t].stream.opened /\ obs[t].stream.ioErr
        /\ obs[t].closed = 1
        /\ ret[t].err = Errorf("getContents", Errorf("Copy", EIO))

\* C17: the error of getContents is the first one: that of NewFile, else
\* that of the user's function, else that of the copy, else the wrong
\* length, and that of Close only when there is no other; a Close error
\* after a copy of exactly size bytes fails getContents and the read/write
\* lease is cleaned up, a Close error after another error is dropped.
C17_FirstErrorWins ==
    \A t \in Threads :
        getContentsReturned(t) =>
            LET o == obs[t] IN
            /\ o.refresh = 0 => o.gc = Errorf("NewFile", "ENOSPC")
            /\ (o.refresh = 1 /\ ~o.stream.opened) =>
                  o.gc = Errorf("User function", "ESRC")
            /\ (o.stream.opened /\ o.stream.ioErr) => o.gc = Errorf("Copy", EIO)
            /\ (o.stream.opened /\ ~o.stream.ioErr /\ o.stream.copied # size) =>
                  o.gc = WrongLength
            /\ (o.stream.opened /\ ~o.stream.ioErr /\ o.stream.copied = size) =>
                  /\ o.gc = IF o.stream.closeErr THEN Errorf("Close", "ECLOSE") ELSE nil
                  /\ o.stream.closeErr =>
                        (Returned(t) /\ leases[rwl[t]].dg /\ wrapped # rwl[t])
            /\ Returned(t) =>
                  (IF o.gc = nil
                   THEN call[t].op = "Upgrade" => ret[t].err = nil
                   ELSE ret[t].err = Errorf("getContents", o.gc))

C17_Witness ==
    \E t \in Threads :
        /\ Returned(t)
        /\ obs[t].stream.opened /\ obs[t].stream.closeErr
        /\ ~obs[t].stream.ioErr /\ obs[t].stream.copied = size
        /\ ret[t].err = Errorf("getContents", Errorf("Close", "ECLOSE"))
        /\ leases[rwl[t]].st = "revoked"

\* A step in which thread t calls Size and gets its result.
SizeStep(t) == pc[t] = "idle" /\ pc'[t] = "done"

\* C18: Size does not wait for rl.mu: a thread that is not inside another
\* call can run Size whoever holds the mutex, also in the middle of another
\* thread's derivation, and the call changes nothing of the proxy, the
\* leaser or the leases.
C18_SizeNeverBlocks ==
    /\ [](\A t \in Threads : (Taken /\ pc[t] = "idle") => ENABLED Size(t))
    /\ [][\A t \in Threads :
            SizeStep(t) =>
                /\ ret'[t] = [NoResult EXCEPT !.n = size]
                /\ UNCHANGED <<size, revoked, wrapped, mu, leases, nfiles, hist>>]_vars

C18_Witness ==
    \E t, u \in Threads :
        /\ t # u
        /\ Returned(t) /\ call[t].op = "Size" /\ ret[t].n = size
        /\ mu = u /\ pc[u] = "refresh"

\* C19: a ReadAt on a live proxy with 0 <= off and off + len(p) <= size that
\* returns no error returns the bytes off .. off + len(p) - 1 of the
\* contents, whatever came before and whether the wrapped lease or a fresh
\* read/write lease served it.
C19_ReadAtBytes ==
    \A t \in Threads :
        (Returned(t) /\ call[t].op = "ReadAt" /\ ret[t].err = nil
            /\ call[t].off >= 0 /\ call[t].off + call[t].n <= size) =>
            /\ ret[t].n = call[t].n
            /\ ret[t].data = SubSeq(Contents(size), call[t].off + 1,
                                    call[t].off + call[t].n)

C19_Witness ==
    \E t \in Threads :
        /\ Returned(t) /\ call[t].op = "ReadAt" /\ call[t].off = 1
        /\ obs[t].lease = 1 /\ obs[t].held.err = RevokedError
        /\ ~hist.clean
        /\ ret[t].err = nil /\ ret[t].data = <<2>>

\* C20: Destroy and an accessor in the middle of a derivation are ordered by
\* rl.mu.  No thread is inside a derivation or about to store its lease
\* once a Destroy has returned; rl.wrapped does not change after a Destroy
\* has returned; an accessor that begins after it is refused without a call
\* of NewFile; and no lease is a valid read lease once a Destroy has
\* returned: the one an accessor stored before is the one Destroy revoked.
C20_DestroyOrdered ==
    /\ [](\A t \in Threads :
            (Deriving(t) \/ pc[t] = "serve") => ~hist.destroyed)
    /\ [](hist.destroyed => \A i \in LeaseIds : leases[i].st # "ro")
    /\ [](\A t \in Threads :
            (Returned(t) /\ call[t].op \in Accessors /\ obs[t].afterDestroy) =>
                (Refused(t) /\ wrapped = obs[t].w0))
    /\ [][hist.destroyed => wrapped' = wrapped]_vars

C20_Witness ==
    \E t \in Threads :
        /\ Returned(t) /\ call[t].op = "Destroy" /\ ~obs[t].afterDestroy
        /\ obs[t].w0 # 0 /\ wrapped = obs[t].w0
        /\ leases[wrapped].st = "revoked" /\ leases[wrapped].rv
        /\ nfiles = 2

====
